---- MODULE Spec2Model ----
(***************************************************************************)
(* curatedMetagenomicDataETL: the three executables that provision and     *)
(* document the ext_ / src_ / stg_ tiers of the warehouse.                 *)
(*                                                                         *)
(*   create_external_tables.py   external table provisioner                *)
(*   create_src_stg_tables.py    view / staging provisioner                *)
(*   gather_table_metadata.py    metadata harvester                        *)
(*                                                                         *)
(* Representation.  Object names and qualified ids are sequences of        *)
(* one-character strings, so that str.split and the f-string joins are     *)
(* computed.  Storage paths are sequences of "/"-separated segments.       *)
(* Python's None is the empty tuple and a present value v is <<v>>.        *)
(* An API call that can raise takes its outcome (ok) from BOOLEAN; where   *)
(* the service must refuse (no dataset, no such object) ok is FALSE.       *)
(***************************************************************************)
EXTENDS Integers, Sequences, FiniteSets, TLC

VARIABLES
    program,        \* which executable the operator invokes: "ext", "stg", "harv"
    datasetExists,  \* the dataset PROJECT_ID.DATASET_ID exists in the warehouse
    catalog,        \* the dataset's objects: short name -> object
    files,          \* object storage: registry index -> files matching its glob
    ext,            \* create_external_tables.main: pc, idx, success_count, log, start
    stg,            \* create_src_stg_tables.main, one record per invocation
    snapshot,       \* staging table name -> the source-view rows its last completed job
                    \* read, and whether that job replaced a table already there
    harv            \* gather_table_metadata.main: pc, tables, idx, result, log

vars == <<program, datasetExists, catalog, files, ext, stg, snapshot, harv>>

----------------------------------------------------------------------------
(* Bounds *)

\* How many entries of TABLE_DEFINITIONS / SOURCE_VIEWS / STAGING_QUERIES
\* (in dictionary order) the provisioners are run over.
NumDefs == 2

\* The largest number of source URIs of an external table found in the catalog.
MaxUris == 4

----------------------------------------------------------------------------
(* Python values *)

None == <<>>
Some(v) == <<v>>
IsNone(o) == o = <<>>
Val(o) == o[1]

Min(a, b) == IF a < b THEN a ELSE b

\* 1 stored under k whatever was counted there
IncrOverwrite(d, k) ==
    [x \in DOMAIN d \cup {k} |-> IF x = k THEN 1 ELSE d[x]]

\* dict.get(k, 0) + 1 stored back under k
Incr(d, k) ==
    IF k \in DOMAIN d THEN [d EXCEPT ![k] = @ + 1]
    ELSE [x \in DOMAIN d \cup {k} |-> IF x = k THEN 1 ELSE d[x]]

\* d[k] = v
Put(d, k, v) == [x \in DOMAIN d \cup {k} |-> IF x = k THEN v ELSE d[x]]

EmptyDict == [x \in {} |-> 0]

\* d1 | d2 for dictionaries with disjoint keys
Merge(d1, d2) == [x \in DOMAIN d1 \cup DOMAIN d2 |-> IF x \in DOMAIN d1 THEN d1[x] ELSE d2[x]]

\* s.split(sep): the parts of s between the occurrences of the character sep
RECURSIVE Split(_, _)
Split(s, sep) ==
    IF \A i \in 1..Len(s) : s[i] # sep THEN <<s>>
    ELSE LET i == CHOOSE k \in 1..Len(s) : s[k] = sep /\ \A j \in 1..(k - 1) : s[j] # sep
         IN  <<SubSeq(s, 1, i - 1)>> \o Split(SubSeq(s, i + 1, Len(s)), sep)

\* the code points of the characters object names are written in
Alphabet == <<".", "0", "1", "2", "3", "4", "5", "6", "7", "8", "9", "_",
              "a", "b", "c", "d", "e", "f", "g", "h", "i", "j", "k", "l", "m",
              "n", "o", "p", "q", "r", "s", "t", "u", "v", "w", "x", "y", "z">>

Ord(c) == CHOOSE i \in 1..Len(Alphabet) : Alphabet[i] = c

\* a < b for Python strings
StrLess(a, b) ==
    \E k \in 1..(Len(a) + 1) :
        /\ k <= Len(b)
        /\ \A j \in 1..(k - 1) : a[j] = b[j]
        /\ (k = Len(a) + 1 \/ Ord(a[k]) < Ord(b[k]))

\* sorted(S, key=lambda t: t.table_id) for a set S of distinct names
RECURSIVE SortedNames(_)
SortedNames(S) ==
    IF S = {} THEN <<>>
    ELSE LET m == CHOOSE x \in S : \A y \in S \ {x} : StrLess(x, y)
         IN  <<m>> \o SortedNames(S \ {m})

----------------------------------------------------------------------------
(* Configuration *)

PROJECT_ID == <<"c","u","r","a","t","e","d","m","e","t","a","g","e","n","o","m","i","c","d","a","t","a">>
DATASET_ID == <<"c","u","r","a","t","e","d","m","e","t","a","g","e","n","o","m","i","c","s","d","a","t","a">>

\* "gs://cmgd-data/results/cMDv4" as path segments
GCS_BUCKET == <<"gs:", "", "cmgd-data", "results", "cMDv4">>

\* f"{PROJECT_ID}.{DATASET_ID}"
DatasetRef == PROJECT_ID \o <<".">> \o DATASET_ID

\* f"{PROJECT_ID}.{DATASET_ID}.{table_name}"
QualifiedId(name) == DatasetRef \o <<".">> \o name

Field(n, t) == [name |-> n, type |-> t, mode |-> "NULLABLE", description |-> None]

ext_marker_abundance == <<"e","x","t","_","m","a","r","k","e","r","_","a","b","u","n","d","a","n","c","e">>
ext_marker_presence == <<"e","x","t","_","m","a","r","k","e","r","_","p","r","e","s","e","n","c","e">>
ext_marker_rel_ab_w_read_stats == <<"e","x","t","_","m","a","r","k","e","r","_","r","e","l","_","a","b","_","w","_","r","e","a","d","_","s","t","a","t","s">>
ext_metaphlan_unknown_list == <<"e","x","t","_","m","e","t","a","p","h","l","a","n","_","u","n","k","n","o","w","n","_","l","i","s","t">>
ext_metaphlan_viruses_list == <<"e","x","t","_","m","e","t","a","p","h","l","a","n","_","v","i","r","u","s","e","s","_","l","i","s","t">>

\* name -> (path, skip_rows, schema), in the dictionary's insertion order
TABLE_DEFINITIONS == <<
    [name |-> ext_marker_abundance,
     path |-> GCS_BUCKET \o <<"*", "metaphlan_markers", "marker_abundance.tsv.gz">>,
     skip_rows |-> 4,
     schema |-> <<Field("marker_id", "STRING"), Field("abundance", "FLOAT")>>],
    [name |-> ext_marker_presence,
     path |-> GCS_BUCKET \o <<"*", "metaphlan_markers", "marker_presence.tsv.gz">>,
     skip_rows |-> 4,
     schema |-> <<Field("marker_id", "STRING"), Field("presence", "INTEGER")>>],
    [name |-> ext_marker_rel_ab_w_read_stats,
     path |-> GCS_BUCKET \o <<"*", "metaphlan_markers", "marker_rel_ab_w_read_stats.tsv.gz">>,
     skip_rows |-> 6,
     schema |-> <<Field("clade_name", "STRING"), Field("clade_taxid", "STRING"),
                  Field("relative_abundance", "STRING"), Field("coverage", "STRING"),
                  Field("estimated_reads", "STRING")>>],
    [name |-> ext_metaphlan_unknown_list,
     path |-> GCS_BUCKET \o <<"*", "metaphlan_lists", "metaphlan_unknown_list.tsv.gz">>,
     skip_rows |-> 5,
     schema |-> <<Field("clade_name", "STRING"), Field("ncbi_tax_id", "STRING"),
                  Field("relative_abundance", "STRING")>>],
    [name |-> ext_metaphlan_viruses_list,
     path |-> GCS_BUCKET \o <<"*", "metaphlan_lists", "metaphlan_viruses_list.tsv.gz">>,
     skip_rows |-> 4,
     schema |-> <<Field("mv_group_cluster", "STRING"), Field("genome_name", "STRING"),
                  Field("length", "INTEGER"), Field("breadth_of_coverage", "FLOAT"),
                  Field("mapping_reads_count", "INTEGER"), Field("rpkm", "FLOAT"),
                  Field("depth_of_coverage_mean", "FLOAT"),
                  Field("depth_of_coverage_median", "FLOAT"),
                  Field("mv_group_type", "STRING"), Field("assigned_taxonomy", "STRING"),
                  Field("first_genome_in_cluster", "STRING"),
                  Field("other_genomes_in_cluster", "STRING")>>]
>>

\* the indices of the registry entries the model runs over
Defs == 1..Min(NumDefs, Len(TABLE_DEFINITIONS))

ExtName(i) == TABLE_DEFINITIONS[i].name
\* the registry name without its "ext_" prefix
BaseName(i) == SubSeq(ExtName(i), 5, Len(ExtName(i)))
SrcName(i) == <<"s", "r", "c", "_">> \o BaseName(i)
StgName(i) == <<"s", "t", "g", "_">> \o BaseName(i)

----------------------------------------------------------------------------
(* Catalog objects.  Every object carries the attributes of bigquery.Table  *)
(* that the programs write or read; rows is the content a TABLE stores.     *)

Object(type, schema, rows, bytes, cluster, query, config, labels) ==
    [table_type |-> type, schema |-> schema, num_rows |-> rows, num_bytes |-> bytes,
     created |-> Some("t0"), modified |-> Some("t0"), clustering_fields |-> cluster,
     view_query |-> query, external_data_configuration |-> config, labels |-> labels,
     rows |-> <<>>]

\* bigquery.ExternalConfig("CSV") with the attributes create_external_table sets
ExternalConfig(definition) ==
    [source_format |-> "CSV",
     source_uris |-> <<definition.path>>,
     compression |-> "GZIP",
     csv_options |-> Some([skip_leading_rows |-> definition.skip_rows,
                           field_delimiter |-> "\t"]),
     schema |-> definition.schema]

\* the object the service stores for bigquery.Table(table_id) with
\* table.external_data_configuration = external_config
ExternalTable(definition) ==
    Object("EXTERNAL", definition.schema, Some(0), Some(0), <<>>, None,
           Some(ExternalConfig(definition)), EmptyDict)

\* the object the service stores for bigquery.Table(view_id) with view.view_query = q
View(q) ==
    Object("VIEW", <<>>, None, None, <<>>, Some(q), None, EmptyDict)

\* client.create_table(table, exists_ok=True): a name already in the dataset is
\* a Conflict, which exists_ok turns into returning the object as stored
CreateTableReplacing(cat, name, obj) ==
    [x \in DOMAIN cat \cup {name} |-> IF x = name THEN obj ELSE cat[x]]

CreateTable(cat, name, obj) ==
    IF name \in DOMAIN cat THEN cat
    ELSE [x \in DOMAIN cat \cup {name} |-> IF x = name THEN obj ELSE cat[x]]

----------------------------------------------------------------------------
(* Object storage and the warehouse's evaluation of the static SQL *)

\* a gzipped TSV under the registry entry's glob, the wildcard matching the
\* segments w; the file starts with the header lines the entry skips
File(i, w, data) ==
    LET glob == TABLE_DEFINITIONS[i].path
        star == CHOOSE k \in 1..Len(glob) : glob[k] = "*"
    IN  [path |-> SubSeq(glob, 1, star - 1) \o w \o SubSeq(glob, star + 1, Len(glob)),
         lines |-> [k \in 1..TABLE_DEFINITIONS[i].skip_rows |-> "#"] \o data]

\* two states of the bucket for one registry entry: one file under a sample
\* directory and one whose wildcard segment is empty; another sample's file
\* of two lines, one of them with a non-numeric value
LayoutA(i) == <<File(i, <<"s1">>, <<"1">>), File(i, <<"">>, <<"2">>)>>
LayoutB(i) == <<File(i, <<"s2">>, <<"x", "2">>)>>

\* the bucket as a whole: every entry's files in the one state or the other
Buckets == {[i \in Defs |-> LayoutA(i)], [i \in Defs |-> LayoutB(i)]}

\* REGEXP_EXTRACT(_FILE_NAME, r'/<marker>/([^/]+)/'): the segment after the
\* first segment equal to marker that has a "/" before it, a non-empty segment
\* after it and a "/" after that one; NULL without a match
RegexpExtract(path, marker) ==
    LET hits == {k \in 2..(Len(path) - 2) : path[k] = marker /\ path[k + 1] # ""}
    IN  IF hits = {} THEN None
        ELSE Some(path[(CHOOSE k \in hits : \A j \in hits : k <= j) + 1])

\* SAFE_CAST(v AS INT64 / FLOAT64): NULL instead of an error
SafeCast(v) ==
    CASE v = "1" -> Some(1)
      [] v = "2" -> Some(2)
      [] OTHER -> None

RECURSIVE FlatRows(_, _)
\* the rows an external table reads: every file's lines after the skipped ones
FlatRows(fs, skip) ==
    IF fs = <<>> THEN <<>>
    ELSE [k \in 1..(Len(Head(fs).lines) - skip) |->
             [_FILE_NAME |-> Head(fs).path, v |-> Head(fs).lines[k + skip]]]
         \o FlatRows(Tail(fs), skip)

\* the index of the registry entry an external table's source_uris point at
GlobIndex(obj) ==
    {i \in 1..Len(TABLE_DEFINITIONS) :
        TABLE_DEFINITIONS[i].path \in
            {Val(obj.external_data_configuration).source_uris[k] :
                k \in 1..Len(Val(obj.external_data_configuration).source_uris)}}

RECURSIVE RowsOf(_, _, _)
RECURSIVE RunSelect(_, _, _)

\* SELECT <sample_id>, <columns> FROM `q.from` [WHERE sample_id IS NOT NULL]
\* the payload columns are one column v; ok is FALSE where the job fails
RunSelect(q, cat, fs) ==
    LET target == Split(q.from, ".")[3]
        src == IF target \in DOMAIN cat THEN RowsOf(target, cat, fs)
               ELSE [ok |-> FALSE, rows |-> <<>>]
        wanted == IF q.sample_id = "REGEXP_EXTRACT" THEN "_FILE_NAME" ELSE "sample_id"
        typed == src.ok /\ \A k \in 1..Len(src.rows) : wanted \in DOMAIN src.rows[k]
        out(r) == [sample_id |-> IF q.sample_id = "REGEXP_EXTRACT"
                                 THEN RegexpExtract(r._FILE_NAME, q.marker)
                                 ELSE r.sample_id,
                   v |-> IF q.safe_cast THEN SafeCast(r.v) ELSE r.v]
        keep(r) == q.where = "none" \/ ~IsNone(r.sample_id)
    IN  IF ~typed THEN [ok |-> FALSE, rows |-> <<>>]
        ELSE [ok |-> TRUE,
              rows |-> SelectSeq([k \in 1..Len(src.rows) |-> out(src.rows[k])], keep)]

\* what FROM `name` reads
RowsOf(name, cat, fs) ==
    LET obj == cat[name]
    IN  CASE obj.table_type = "EXTERNAL" ->
               LET idx == GlobIndex(obj)
                   i == CHOOSE k \in idx : TRUE
                   skip == Val(Val(obj.external_data_configuration).csv_options).skip_leading_rows
               IN  IF idx = {} \/ i \notin DOMAIN fs THEN [ok |-> TRUE, rows |-> <<>>]
                   ELSE [ok |-> TRUE, rows |-> FlatRows(fs[i], skip)]
          [] obj.table_type = "VIEW" -> RunSelect(Val(obj.view_query), cat, fs)
          [] OTHER -> [ok |-> TRUE, rows |-> obj.rows]

----------------------------------------------------------------------------
(* create_src_stg_tables.py: the static SQL *)

\* a query template: {project}.{dataset}.<table> is filled in by str.format
Template(sel, marker, table, cast, where) ==
    [sample_id |-> sel, marker |-> marker,
     from |-> [project |-> "{project}", dataset |-> "{dataset}", table |-> table],
     safe_cast |-> cast, where |-> where]

\* query.format(project=PROJECT_ID, dataset=DATASET_ID)
Format(q, project, dataset) ==
    [q EXCEPT !.from = project \o <<".">> \o dataset \o <<".">> \o q.from.table]

\* src_* : REGEXP_EXTRACT(_FILE_NAME, r'/cMDv4/([^/]+)/') as sample_id and the
\* external table's columns as they are, no WHERE
SOURCE_VIEWS ==
    [i \in 1..Len(TABLE_DEFINITIONS) |->
        [name |-> SrcName(i),
         query |-> Template("REGEXP_EXTRACT", "cMDv4", ExtName(i), FALSE, "none")]]

\* stg_* : sample_id and the SAFE_CAST columns of the source view,
\* WHERE sample_id IS NOT NULL
STAGING_QUERIES ==
    [i \in 1..Len(TABLE_DEFINITIONS) |->
        [name |-> StgName(i),
         query |-> Template("sample_id", "", SrcName(i), TRUE, "sample_id IS NOT NULL")]]

----------------------------------------------------------------------------
(* The api log: one entry per call the program makes on the client *)

Call(op, name, ok) == [op |-> op, name |-> name, ok |-> ok]

CallsOf(log, op, name) == {k \in 1..Len(log) : log[k].op = op /\ log[k].name = name}

\* the view / staging provisioner's log keeps the call that opens each attempt
\* (create_table of a view, query of a staging table), without its outcome
Issued(s, op, name) == [s EXCEPT !.log = Append(@, [op |-> op, name |-> name])]

----------------------------------------------------------------------------
(* The programs before their first run *)

ExtIdle == [pc |-> "idle", idx |-> 1, success_count |-> 0, log |-> <<>>, start |-> EmptyDict]

\* of the last call of create_staging_table: wrote holds, under the table's
\* name, the result of its query job once that has completed, and printed is
\* the row count it has printed
StgIdle ==
    [pc |-> "idle", idx |-> 1, success_count |-> 0, log |-> <<>>,
     job |-> [ok |-> FALSE, rows |-> <<>>, read |-> <<>>],
     wrote |-> EmptyDict, printed |-> None]


\* lines 112-127; the generation time and the dataset's own attributes are left out
EmptyResult ==
    [project_id |-> PROJECT_ID, dataset_id |-> DATASET_ID, tables |-> EmptyDict,
     summary |-> [total_tables |-> 0, by_type |-> EmptyDict, by_prefix |-> EmptyDict,
                  total_rows |-> 0, total_size_gb |-> 0]]

HarvIdle == [pc |-> "idle", tables |-> <<>>, idx |-> 1, result |-> EmptyResult, log |-> <<>>]

----------------------------------------------------------------------------
(* create_external_tables.py *)

\* create_external_table(client, table_name, definition); ok is the outcome of
\* client.create_table.  The result: the catalog, the value returned, whether
\* an exception leaves the function
create_external_table_reraise(cat, table_name, definition, ok) ==
    [catalog |-> IF ok THEN CreateTable(cat, table_name, ExternalTable(definition)) ELSE cat,
     returns |-> ok,
     raised |-> ~ok]

create_external_table(cat, table_name, definition, ok) ==
    [catalog |-> IF ok THEN CreateTable(cat, table_name, ExternalTable(definition)) ELSE cat,
     returns |-> ok,
     raised |-> FALSE]

\* the operator runs the program (again)
ExtStart ==
    /\ program = "ext"
    /\ ext.pc \in {"idle", "done"}
    /\ ext' = [ExtIdle EXCEPT !.pc = "get_dataset", !.start = catalog]
    /\ UNCHANGED <<program, datasetExists, catalog, files, stg, snapshot, harv>>

\* main, lines 137-145, with the return after the failure left out
ExtGetDatasetNoReturn ==
    /\ ext.pc = "get_dataset"
    /\ \E ok \in BOOLEAN :
        /\ ok => datasetExists
        /\ ext' = [ext EXCEPT !.pc = "loop",
                              !.log = Append(@, Call("get_dataset", DatasetRef, ok))]
    /\ UNCHANGED <<program, datasetExists, catalog, files, stg, snapshot, harv>>

\* main, lines 137-145: client.get_dataset, and the early return when it raises
ExtGetDataset ==
    /\ ext.pc = "get_dataset"
    /\ \E ok \in BOOLEAN :
        /\ ok => datasetExists
        /\ ext' = [ext EXCEPT !.pc = IF ok THEN "loop" ELSE "done",
                              !.log = Append(@, Call("get_dataset", DatasetRef, ok))]
    /\ UNCHANGED <<program, datasetExists, catalog, files, stg, snapshot, harv>>

\* main, lines 149-156: one iteration of the loop over TABLE_DEFINITIONS.items()
\* and, after the last one, the summary
ExtCreate ==
    /\ ext.pc = "loop"
    /\ \E ok \in BOOLEAN :
        LET definition == TABLE_DEFINITIONS[ext.idx]
            r == create_external_table(catalog, definition.name, definition, ok)
        IN  /\ ok => datasetExists
            /\ catalog' = r.catalog
            /\ ext' = [ext EXCEPT
                         !.pc = IF r.raised THEN "raised"
                                ELSE IF ext.idx + 1 \in Defs THEN "loop" ELSE "done",
                         !.idx = @ + 1,
                         !.success_count = IF ~r.raised /\ r.returns THEN @ + 1 ELSE @,
                         !.log = Append(@, Call("create_table", definition.name, ok))]
    /\ UNCHANGED <<program, datasetExists, files, stg, snapshot, harv>>

NextExt == ExtStart \/ ExtGetDataset \/ ExtCreate

\* an external table of the registry's name made by hand, skipping no header
LegacyExternal(i) == ExternalTable([TABLE_DEFINITIONS[i] EXCEPT !.skip_rows = 0])

InitExt ==
    /\ program = "ext"
    /\ datasetExists \in BOOLEAN
    /\ \E S \in SUBSET Defs :
        /\ ~datasetExists => S = {}
        /\ catalog = [n \in {ExtName(i) : i \in S} |->
                         LegacyExternal(CHOOSE i \in S : ExtName(i) = n)]
    /\ files = [i \in Defs |-> LayoutA(i)]
    /\ ext = ExtIdle
    /\ stg = [i \in {1} |-> StgIdle]
    /\ snapshot = EmptyDict
    /\ harv = HarvIdle

----------------------------------------------------------------------------
(* create_src_stg_tables.py *)

\* create_view(client, view_name, query); ok is the outcome of client.create_table
create_view(cat, view_name, query, ok) ==
    [catalog |-> IF ok
                 THEN CreateTable(cat, view_name, View(Format(query, PROJECT_ID, DATASET_ID)))
                 ELSE cat,
     returns |-> ok,
     raised |-> FALSE]

\* the table a finished query job leaves at its destination, clustered by
\* sample_id; the stored size is taken as 8 bytes a row
StagedTable(rows) ==
    [Object("TABLE", <<Field("sample_id", "STRING"), Field("v", "FLOAT")>>,
            Some(Len(rows)), Some(8 * Len(rows)), <<"sample_id">>, None, None, EmptyDict)
        EXCEPT !.rows = rows]

\* write_disposition="WRITE_APPEND"
WriteAppend(cat, name, rows) ==
    [x \in DOMAIN cat \cup {name} |->
        IF x # name THEN cat[x]
        ELSE IF name \in DOMAIN cat THEN StagedTable(cat[name].rows \o rows)
        ELSE StagedTable(rows)]

\* write_disposition="WRITE_TRUNCATE": the job's result replaces the destination
WriteTruncate(cat, name, rows) ==
    [x \in DOMAIN cat \cup {name} |-> IF x = name THEN StagedTable(rows) ELSE cat[x]]

\* main, lines 216-222, leaving the loop at the first table that failed
StgNextTableBreak(s, returned) ==
    LET count == IF returned THEN s.success_count + 1 ELSE s.success_count
    IN  [s EXCEPT !.success_count = count,
                  !.idx = IF returned /\ s.idx + 1 \in Defs THEN @ + 1 ELSE 1,
                  !.pc = IF returned /\ s.idx + 1 \in Defs THEN "staging_query"
                         ELSE IF count > 0 THEN "verify" ELSE "done"]

\* main, lines 216-226: create_staging_table returned; the next entry of
\* STAGING_QUERIES.items(), or the tally and verify_counts if any succeeded
StgNextTable(s, returned) ==
    LET count == IF returned THEN s.success_count + 1 ELSE s.success_count
    IN  [s EXCEPT !.success_count = count,
                  !.idx = IF s.idx + 1 \in Defs THEN @ + 1 ELSE 1,
                  !.pc = IF s.idx + 1 \in Defs THEN "staging_query"
                         ELSE IF count > 0 THEN "verify" ELSE "done"]

StgStart(i) ==
    /\ program = "stg"
    /\ stg[i].pc \in {"idle", "done"}
    /\ stg' = [stg EXCEPT ![i] = [StgIdle EXCEPT !.pc = "views"]]
    /\ UNCHANGED <<program, datasetExists, catalog, files, ext, snapshot, harv>>

\* main, lines 203-207: one iteration of the loop over SOURCE_VIEWS.items().
\* The service refuses a view in a missing dataset or over a missing table.
StgCreateView(i) ==
    /\ stg[i].pc = "views"
    /\ \E ok \in BOOLEAN :
        LET view == SOURCE_VIEWS[stg[i].idx]
            r == create_view(catalog, view.name, view.query, ok)
        IN  /\ ok => /\ datasetExists
                     /\ view.name \in DOMAIN catalog \/ view.query.from.table \in DOMAIN catalog
            /\ catalog' = r.catalog
            /\ stg' = [stg EXCEPT ![i] =
                 [Issued(@, "create_table", view.name) EXCEPT
                    !.pc = IF r.raised THEN "raised"
                           ELSE IF stg[i].idx + 1 \in Defs THEN "views"
                           ELSE "views_tally",
                    !.idx = @ + 1,
                    !.success_count = IF ~r.raised /\ r.returns THEN @ + 1 ELSE @]]
    /\ UNCHANGED <<program, datasetExists, files, ext, snapshot, harv>>

\* main, lines 207-216: the tally of the views is printed and success_count
\* starts again at 0 for the staging tables
StgTally(i) ==
    /\ stg[i].pc = "views_tally"
    /\ stg' = [stg EXCEPT ![i] = [@ EXCEPT !.pc = "staging_query", !.idx = 1,
                                           !.success_count = 0]]
    /\ UNCHANGED <<program, datasetExists, catalog, files, ext, snapshot, harv>>

\* create_staging_table, line 161: client.query starts the job, which reads the
\* source view as it is now; when the call raises the function returns False
StgQuery(i) ==
    /\ stg[i].pc = "staging_query"
    /\ \E ok \in BOOLEAN :
        LET entry == STAGING_QUERIES[stg[i].idx]
            q == Format(entry.query, PROJECT_ID, DATASET_ID)
            res == RunSelect(q, catalog, files)
            view == RunSelect([q EXCEPT !.safe_cast = FALSE, !.where = "none"], catalog, files)
            logged == [Issued(stg[i], "query", entry.name) EXCEPT
                         !.wrote = EmptyDict, !.printed = None]
        IN  /\ ok => datasetExists
            /\ stg' = [stg EXCEPT ![i] =
                 IF ok THEN [logged EXCEPT !.pc = "staging_result",
                                           !.job = [ok |-> res.ok, rows |-> res.rows,
                                                    read |-> view.rows]]
                 ELSE StgNextTable(logged, FALSE)]
    /\ UNCHANGED <<program, datasetExists, catalog, files, ext, snapshot, harv>>

\* create_staging_table, line 162, with a job that writes its destination even
\* when its query could not be evaluated
StgResultAnyJob(i) ==
    /\ stg[i].pc = "staging_result"
    /\ \E ok \in BOOLEAN :
        LET entry == STAGING_QUERIES[stg[i].idx]
            logged == [stg[i] EXCEPT !.job = StgIdle.job]
        IN  /\ ok => datasetExists
            /\ catalog' = IF ok THEN WriteTruncate(catalog, entry.name, stg[i].job.rows)
                          ELSE catalog
            /\ snapshot' = IF ok
                           THEN [x \in DOMAIN snapshot \cup {entry.name} |->
                                    IF x = entry.name
                                    THEN [read |-> stg[i].job.read,
                                          replaced |-> entry.name \in DOMAIN catalog]
                                    ELSE snapshot[x]]
                           ELSE snapshot
            /\ stg' = [stg EXCEPT ![i] =
                 IF ok THEN [logged EXCEPT !.pc = "staging_get_table",
                                           !.wrote = Put(EmptyDict, entry.name, stg[i].job.rows)]
                 ELSE StgNextTable(logged, FALSE)]
    /\ UNCHANGED <<program, datasetExists, files, ext, harv>>

\* create_staging_table, line 162: query_job.result() waits for the job; a job
\* that finished has replaced the destination table, a failed one raises
StgResult(i) ==
    /\ stg[i].pc = "staging_result"
    /\ \E ok \in BOOLEAN :
        LET entry == STAGING_QUERIES[stg[i].idx]
            logged == [stg[i] EXCEPT !.job = StgIdle.job]
        IN  /\ ok => stg[i].job.ok /\ datasetExists
            /\ catalog' = IF ok THEN WriteTruncate(catalog, entry.name, stg[i].job.rows)
                          ELSE catalog
            /\ snapshot' = IF ok
                           THEN [x \in DOMAIN snapshot \cup {entry.name} |->
                                    IF x = entry.name
                                    THEN [read |-> stg[i].job.read,
                                          replaced |-> entry.name \in DOMAIN catalog]
                                    ELSE snapshot[x]]
                           ELSE snapshot
            /\ stg' = [stg EXCEPT ![i] =
                 IF ok THEN [logged EXCEPT !.pc = "staging_get_table",
                                           !.wrote = Put(EmptyDict, entry.name, stg[i].job.rows)]
                 ELSE StgNextTable(logged, FALSE)]
    /\ UNCHANGED <<program, datasetExists, files, ext, harv>>

\* create_staging_table, lines 165-172, printing the row count of the job the
\* invocation ran itself
StgGetTableOwnJob(i) ==
    /\ stg[i].pc = "staging_get_table"
    /\ \E ok \in BOOLEAN :
        LET entry == STAGING_QUERIES[stg[i].idx]
            seen == IF ok THEN [stg[i] EXCEPT !.printed = Some(Len(stg[i].wrote[entry.name]))]
                    ELSE stg[i]
        IN  /\ ok => datasetExists /\ entry.name \in DOMAIN catalog
            /\ stg' = [stg EXCEPT ![i] = StgNextTable(seen, ok)]
    /\ UNCHANGED <<program, datasetExists, catalog, files, ext, snapshot, harv>>

\* create_staging_table, lines 165-172: client.get_table for the row count and
\* size that are printed; True when it returned, False when it raised
StgGetTable(i) ==
    /\ stg[i].pc = "staging_get_table"
    /\ \E ok \in BOOLEAN :
        LET entry == STAGING_QUERIES[stg[i].idx]
            seen == IF ok THEN [stg[i] EXCEPT !.printed = catalog[entry.name].num_rows]
                    ELSE stg[i]
        IN  /\ ok => datasetExists /\ entry.name \in DOMAIN catalog
            /\ stg' = [stg EXCEPT ![i] = StgNextTable(seen, ok)]
    /\ UNCHANGED <<program, datasetExists, catalog, files, ext, snapshot, harv>>

\* verify_counts(client), one iteration of its loop: SELECT COUNT(*) over a
\* tier of the first entry; the count or the caught error is printed
StgVerify(i) ==
    /\ stg[i].pc = "verify"
    /\ \E ok \in BOOLEAN :
        LET tables_to_check == <<ExtName(1), SrcName(1), StgName(1)>>
            name == tables_to_check[stg[i].idx]
        IN  /\ ok => /\ datasetExists
                     /\ name \in DOMAIN catalog
                     /\ RowsOf(name, catalog, files).ok
            /\ stg' = [stg EXCEPT ![i] =
                 [@ EXCEPT !.pc = IF stg[i].idx = 3 THEN "done" ELSE "verify",
                           !.idx = @ + 1]]
    /\ UNCHANGED <<program, datasetExists, catalog, files, ext, snapshot, harv>>

\* files arrive in and leave the bucket while the programs run
StorageChange ==
    /\ program = "stg"
    /\ \E b \in Buckets \ {files} : files' = b
    /\ UNCHANGED <<program, datasetExists, catalog, ext, stg, snapshot, harv>>

Start == \E i \in DOMAIN stg : StgStart(i)
CreateView == \E i \in DOMAIN stg : StgCreateView(i)
Tally == \E i \in DOMAIN stg : StgTally(i)
Query == \E i \in DOMAIN stg : StgQuery(i)
Result == \E i \in DOMAIN stg : StgResult(i)
GetTable == \E i \in DOMAIN stg : StgGetTable(i)
Verify == \E i \in DOMAIN stg : StgVerify(i)

NextStg == Start \/ CreateView \/ Tally \/ Query \/ Result \/ GetTable \/ Verify \/ StorageChange

\* a view of the same name left by an earlier data release
LegacyView(i) ==
    View(Format([SOURCE_VIEWS[i].query EXCEPT !.marker = "cMDv3"], PROJECT_ID, DATASET_ID))

CurrentView(i) == View(Format(SOURCE_VIEWS[i].query, PROJECT_ID, DATASET_ID))

\* the catalog the external table provisioner leaves, with each source view
\* missing, left over or current
InitStg ==
    /\ program = "stg"
    /\ datasetExists \in BOOLEAN
    /\ \E views \in [Defs -> {"none", "legacy", "current"}] :
        catalog =
            IF ~datasetExists THEN EmptyDict
            ELSE LET names == {ExtName(i) : i \in Defs}
                              \cup {SrcName(i) : i \in {j \in Defs : views[j] # "none"}}
                 IN  [n \in names |->
                        LET i == CHOOSE j \in Defs : n \in {ExtName(j), SrcName(j)}
                        IN  IF n = ExtName(i) THEN ExternalTable(TABLE_DEFINITIONS[i])
                            ELSE IF views[i] = "legacy" THEN LegacyView(i)
                            ELSE CurrentView(i)]
    /\ files = [i \in Defs |-> LayoutA(i)]
    /\ ext = ExtIdle
    /\ stg = [i \in {1} |-> StgIdle]
    /\ snapshot = EmptyDict
    /\ harv = HarvIdle

----------------------------------------------------------------------------
(* gather_table_metadata.py *)

\* 1024**3
GiB == 1073741824

\* round(num_bytes / (1024**3), 2), in hundredths of a GB.  The quotient is
\* exact in a double, so round() rounds its exact value, a tie to the even
\* hundredth.  The remainder is scaled in two halves to stay within 32 bits.
SizeGb(num_bytes) ==
    LET r == num_bytes % GiB
        hi == r \div 16384
        lo == r % 16384
        a == (hi * 25) + ((lo * 25) \div 16384)
        down == ((num_bytes \div GiB) * 100) + (a \div 16384)
        rest == ((a % 16384) * 16384) + ((lo * 25) % 16384)
    IN  IF rest > 134217728 \/ (rest = 134217728 /\ (down % 2) = 1) THEN down + 1 ELSE down

\* datetime.isoformat()
IsoFormat(t) == [iso |-> t]

\* how many source URIs the report lists
FirstUris == 3

\* lines 77-89: the external_config entry of the record, all of the URIs listed
ExternalConfigEntryUncut(ext_config) ==
    Merge([source_format |-> ext_config.source_format,
           source_uris |-> ext_config.source_uris,
           num_source_uris |-> Len(ext_config.source_uris),
           compression |-> ext_config.compression],
          IF ~IsNone(ext_config.csv_options)
          THEN [csv_options |->
                  [skip_leading_rows |-> Val(ext_config.csv_options).skip_leading_rows,
                   field_delimiter |-> Val(ext_config.csv_options).field_delimiter]]
          ELSE EmptyDict)

\* lines 77-89: the external_config entry of the record
ExternalConfigEntry(ext_config) ==
    Merge([source_format |-> ext_config.source_format,
           source_uris |-> SubSeq(ext_config.source_uris, 1,
                                  Min(FirstUris, Len(ext_config.source_uris))),
           num_source_uris |-> Len(ext_config.source_uris),
           compression |-> ext_config.compression],
          IF ~IsNone(ext_config.csv_options)
          THEN [csv_options |->
                  [skip_leading_rows |-> Val(ext_config.csv_options).skip_leading_rows,
                   field_delimiter |-> Val(ext_config.csv_options).field_delimiter]]
          ELSE EmptyDict)

\* lines 97-101: the record returned when client.get_table raised
ErrorMarker(table_id) ==
    [table_id |-> Split(table_id, ".")[Len(Split(table_id, "."))],
     error |-> "get_table failed"]

\* lines 29-95: the record built from the table client.get_table returned
Metadata(table, name) ==
    LET sized == table.table_type \in {"TABLE", "EXTERNAL"}
        truthy_bytes == ~IsNone(table.num_bytes) /\ Val(table.num_bytes) # 0
        basic ==
            [table_id |-> name,
             full_table_id |-> PROJECT_ID \o <<".">> \o DATASET_ID \o <<".">> \o name,
             table_type |-> table.table_type,
             created |-> IF ~IsNone(table.created)
                         THEN Some(IsoFormat(Val(table.created))) ELSE None,
             modified |-> IF ~IsNone(table.modified)
                          THEN Some(IsoFormat(Val(table.modified))) ELSE None,
             schema |-> [k \in 1..Len(table.schema) |->
                            [name |-> table.schema[k].name,
                             type |-> table.schema[k].type,
                             mode |-> table.schema[k].mode,
                             description |-> table.schema[k].description]],
             num_fields |-> Len(table.schema),
             num_rows |-> IF sized THEN table.num_rows ELSE None,
             num_bytes |-> IF sized THEN table.num_bytes ELSE None,
             size_gb |-> IF sized
                         THEN Some(IF truthy_bytes THEN SizeGb(Val(table.num_bytes)) ELSE 0)
                         ELSE None,
             clustering_fields |-> table.clustering_fields]
        view == IF table.table_type = "VIEW"
                THEN [view_query |-> table.view_query] ELSE EmptyDict
        external ==
            IF table.table_type = "EXTERNAL" /\ ~IsNone(table.external_data_configuration)
            THEN [external_config |->
                    ExternalConfigEntry(Val(table.external_data_configuration))]
            ELSE EmptyDict
        labels == IF DOMAIN table.labels # {} THEN [labels |-> table.labels] ELSE EmptyDict
    IN  Merge(Merge(Merge(basic, view), external), labels)

\* get_table_metadata with the exception of client.get_table let through
get_table_metadata_uncaught(cat, table_id, ok) ==
    LET name == Split(table_id, ".")[Len(Split(table_id, "."))]
    IN  IF ok THEN [metadata |-> Metadata(cat[name], name), raised |-> FALSE]
        ELSE [metadata |-> ErrorMarker(table_id), raised |-> TRUE]

\* get_table_metadata(client, table_id); ok is the outcome of client.get_table
get_table_metadata(cat, table_id, ok) ==
    LET name == Split(table_id, ".")[Len(Split(table_id, "."))]
    IN  IF ok THEN [metadata |-> Metadata(cat[name], name), raised |-> FALSE]
        ELSE [metadata |-> ErrorMarker(table_id), raised |-> FALSE]

\* the bucket of a name that has no underscore taken as its first character
NamingPrefixFirstChar(table_id) ==
    IF \A k \in 1..Len(table_id) : table_id[k] # "_" THEN SubSeq(table_id, 1, 1)
    ELSE Split(table_id, "_")[1] \o <<"_">>

\* line 147: table_item.table_id.split("_")[0] + "_"
NamingPrefix(table_id) == Split(table_id, "_")[1] \o <<"_">>

\* lines 142-154 without the test for an error marker
UpdateSummaryUnguarded(summary, table_id, metadata) ==
    LET table_type == IF "table_type" \in DOMAIN metadata
                      THEN metadata.table_type ELSE "UNKNOWN"
    IN  [summary EXCEPT !.by_type = Incr(@, table_type),
                        !.by_prefix = Incr(@, NamingPrefix(table_id))]

\* lines 142-154: the summary after one object's record
UpdateSummary(summary, table_id, metadata) ==
    IF "error" \in DOMAIN metadata THEN summary
    ELSE LET table_type == IF "table_type" \in DOMAIN metadata
                           THEN metadata.table_type ELSE "UNKNOWN"
             rows == IF "num_rows" \in DOMAIN metadata /\ ~IsNone(metadata.num_rows)
                     THEN Val(metadata.num_rows) ELSE 0
             size == IF "size_gb" \in DOMAIN metadata /\ ~IsNone(metadata.size_gb)
                     THEN Val(metadata.size_gb) ELSE 0
         IN  [summary EXCEPT !.by_type = Incr(@, table_type),
                             !.by_prefix = Incr(@, NamingPrefix(table_id)),
                             !.total_rows = @ + rows,
                             !.total_size_gb = @ + size]

HarvStart ==
    /\ program = "harv"
    /\ harv.pc \in {"idle", "done", "raised"}
    /\ harv' = [HarvIdle EXCEPT !.pc = "get_dataset"]
    /\ UNCHANGED <<program, datasetExists, catalog, files, ext, stg, snapshot>>

\* gather_all_metadata, line 110: client.get_dataset, outside any try
HarvGetDataset ==
    /\ harv.pc = "get_dataset"
    /\ \E ok \in BOOLEAN :
        /\ ok => datasetExists
        /\ harv' = [harv EXCEPT !.pc = IF ok THEN "list_tables" ELSE "raised",
                                !.log = Append(@, Call("get_dataset", DatasetRef, ok))]
    /\ UNCHANGED <<program, datasetExists, catalog, files, ext, stg, snapshot>>

\* gather_all_metadata, lines 130-134: client.list_tables, outside any try;
\* the objects are then taken in the order of their names
HarvListTables ==
    /\ harv.pc = "list_tables"
    /\ \E ok \in BOOLEAN :
        /\ ok => datasetExists
        /\ harv' = [harv EXCEPT
                      !.pc = IF ok THEN "loop" ELSE "raised",
                      !.tables = IF ok THEN SortedNames(DOMAIN catalog) ELSE @,
                      !.result.summary.total_tables =
                          IF ok THEN Cardinality(DOMAIN catalog) ELSE @,
                      !.log = Append(@, Call("list_tables", DatasetRef, ok))]
    /\ UNCHANGED <<program, datasetExists, catalog, files, ext, stg, snapshot>>

\* gather_all_metadata, lines 134-154: one iteration of the loop
HarvTable ==
    /\ harv.pc = "loop"
    /\ harv.idx <= Len(harv.tables)
    /\ \E ok \in BOOLEAN :
        LET name == harv.tables[harv.idx]
            table_id == DatasetRef \o <<".">> \o name
            r == get_table_metadata(catalog, table_id, ok)
        IN  /\ ok => datasetExists /\ name \in DOMAIN catalog
            /\ harv' =
                 IF r.raised
                 THEN [harv EXCEPT !.pc = "raised",
                                   !.log = Append(@, Call("get_table", name, ok))]
                 ELSE [harv EXCEPT
                         !.idx = @ + 1,
                         !.result.tables =
                             [x \in DOMAIN @ \cup {name} |->
                                 IF x = name THEN r.metadata ELSE @[x]],
                         !.result.summary = UpdateSummary(@, name, r.metadata),
                         !.log = Append(@, Call("get_table", name, ok))]
    /\ UNCHANGED <<program, datasetExists, catalog, files, ext, stg, snapshot>>

\* gather_all_metadata, lines 156-158, and main: the total is rounded (a sum
\* of hundredths is one already) and the report is written
HarvFinish ==
    /\ harv.pc = "loop"
    /\ harv.idx > Len(harv.tables)
    /\ harv' = [harv EXCEPT !.pc = "done"]
    /\ UNCHANGED <<program, datasetExists, catalog, files, ext, stg, snapshot>>

NextHarv == HarvStart \/ HarvGetDataset \/ HarvListTables \/ HarvTable \/ HarvFinish

ext_a == <<"e", "x", "t", "_", "a">>
src_a == <<"s", "r", "c", "_", "a">>
stg_a == <<"s", "t", "g", "_", "a">>
weird == <<"w", "e", "i", "r", "d">>

\* an external table over MaxUris files named one by one, read with the defaults
ManyUris ==
    [ExternalTable(TABLE_DEFINITIONS[1]) EXCEPT
        !.external_data_configuration =
            Some([Val(@) EXCEPT
                    !.source_uris = [k \in 1..MaxUris |-> GCS_BUCKET \o <<ToString(k)>>],
                    !.csv_options = None])]

\* a labelled table of an eighth of a GB, and an empty one
BigTable ==
    [StagedTable(<<[sample_id |-> Some("s1"), v |-> Some(1)],
                   [sample_id |-> Some("s2"), v |-> None]>>)
        EXCEPT !.num_bytes = Some(134217728), !.labels = [tier |-> "stg"]]

\* what may be found under a name of the dataset
Found == {ExternalTable(TABLE_DEFINITIONS[1]), ManyUris, CurrentView(1), BigTable,
          StagedTable(<<>>)}

InitHarv ==
    /\ program = "harv"
    /\ datasetExists \in BOOLEAN
    /\ \E S \in SUBSET {ext_a, src_a, stg_a, weird} :
        /\ ~datasetExists => S = {}
        /\ catalog \in [S -> Found]
    /\ files = [i \in Defs |-> LayoutA(i)]
    /\ ext = ExtIdle
    /\ stg = [i \in {1} |-> StgIdle]
    /\ snapshot = EmptyDict
    /\ harv = HarvIdle

----------------------------------------------------------------------------
(* Each behaviour follows the runs of one of the three executables *)

Init == InitExt \/ InitStg \/ InitHarv

Next == NextExt \/ NextStg \/ NextHarv

Spec == Init /\ [][Next]_vars

----------------------------------------------------------------------------
(* Two invocations of create_src_stg_tables.py at the same time, each run   *)
(* once by its operator, over the catalog the provisioners left             *)

Invocations == {1, 2}

InitConcurrent ==
    /\ program = "stg"
    /\ datasetExists = TRUE
    /\ catalog = [n \in {ExtName(i) : i \in Defs} \cup {SrcName(i) : i \in Defs} |->
                    LET i == CHOOSE j \in Defs : n \in {ExtName(j), SrcName(j)}
                    IN  IF n = ExtName(i) THEN ExternalTable(TABLE_DEFINITIONS[i])
                        ELSE CurrentView(i)]
    /\ files \in Buckets
    /\ ext = ExtIdle
    /\ stg = [i \in Invocations |-> StgIdle]
    /\ snapshot = EmptyDict
    /\ harv = HarvIdle

StartOnce == \E i \in DOMAIN stg : stg[i].pc = "idle" /\ StgStart(i)

NextConcurrent ==
    StartOnce \/ CreateView \/ Tally \/ Query \/ Result \/ GetTable \/ Verify \/ StorageChange

SpecConcurrent == InitConcurrent /\ [][NextConcurrent]_vars

----------------------------------------------------------------------------
(* Properties of the external table provisioner *)

ExtCreateCalls(i) == CallsOf(ext.log, "create_table", ExtName(i))

ExtDatasetFound == ext.log # <<>> /\ ext.log[1].op = "get_dataset" /\ ext.log[1].ok

\* C1: with the dataset present, whichever create calls fail, the loop calls
\* create_table exactly once for every definition it has passed and for none it
\* has not, no exception leaves it, and success_count is the number of
\* definitions whose call did not fail; at the end every definition is passed.
C1_EveryDefinitionAttempted ==
    /\ ext.pc # "raised"
    /\ ExtDatasetFound =>
        /\ \A i \in Defs :
            Cardinality(ExtCreateCalls(i)) = IF i < ext.idx THEN 1 ELSE 0
        /\ ext.success_count =
            Cardinality({i \in Defs : \E k \in ExtCreateCalls(i) : ext.log[k].ok})
        /\ ext.pc = "done" => \A i \in Defs : i < ext.idx

\* a finished run in which a create call failed and a later one succeeded
C1_Witness ==
    /\ ext.pc = "done"
    /\ \E j, k \in 1..Len(ext.log) :
        /\ j < k
        /\ ext.log[j].op = "create_table" /\ ~ext.log[j].ok
        /\ ext.log[k].op = "create_table" /\ ext.log[k].ok

C7_MissingDatasetIsFatal ==
    (program = "ext" /\ ext.log # <<>> /\ ~ext.log[1].ok) =>
        /\ ext.pc = "done"
        /\ ext.log = <<Call("get_dataset", DatasetRef, FALSE)>>
        /\ catalog = ext.start

\* a run against a warehouse without the dataset has ended
C7_Witness ==
    /\ program = "ext"
    /\ ~datasetExists
    /\ ext.pc = "done"
    /\ ext.log # <<>>

----------------------------------------------------------------------------
(* Properties of the view / staging provisioner *)

\* the body SOURCE_VIEWS defines for the view called name
DefinedBody(name) ==
    LET i == CHOOSE k \in 1..Len(SOURCE_VIEWS) : SOURCE_VIEWS[k].name = name
    IN  Format(SOURCE_VIEWS[i].query, PROJECT_ID, DATASET_ID)

\* C3: once create_view has succeeded for a view name, the query the catalog
\* stores for that view is the one SOURCE_VIEWS defines for the name; so in a
\* run where every create_view so far returned True (success_count is the
\* number of views passed), each of those views has its defined body.
C3_ViewBodyReplaced ==
    \A j \in DOMAIN stg :
        (stg[j].pc \in {"views", "views_tally"} /\ stg[j].success_count = stg[j].idx - 1) =>
            \A i \in Defs :
                i < stg[j].idx =>
                    /\ SrcName(i) \in DOMAIN catalog
                    /\ catalog[SrcName(i)].view_query = Some(DefinedBody(SrcName(i)))

StagingTables == {n \in DOMAIN catalog : \E i \in Defs : n = StgName(i)}

\* the rows of a source-view snapshot whose sample_id is not NULL
NonNull(rows) == SelectSeq(rows, LAMBDA r : r.sample_id # None)

\* C4: every staging table holds, row for row, the rows with a non-NULL
\* sample_id of the source-view snapshot that the last query job to complete
\* for it read (their payload SAFE_CAST), so nothing of an earlier job is left
\* and no NULL sample_id is stored; and a source view with the body
\* SOURCE_VIEWS defines gives one row for every row of its external table,
\* the rows whose path has no sample directory included, with a NULL sample_id.
C4_StagingIsOneSnapshot ==
    /\ \A n \in StagingTables :
        /\ n \in DOMAIN snapshot
        /\ Len(catalog[n].rows) = Len(NonNull(snapshot[n].read))
        /\ \A k \in 1..Len(catalog[n].rows) :
            /\ catalog[n].rows[k].sample_id = NonNull(snapshot[n].read)[k].sample_id
            /\ catalog[n].rows[k].sample_id # None
            /\ catalog[n].rows[k].v = SafeCast(NonNull(snapshot[n].read)[k].v)
    /\ \A i \in Defs :
        (/\ program = "stg"
         /\ ExtName(i) \in DOMAIN catalog
         /\ SrcName(i) \in DOMAIN catalog
         /\ catalog[SrcName(i)].view_query = Some(DefinedBody(SrcName(i)))) =>
            LET raw == RowsOf(ExtName(i), catalog, files).rows
                seen == RowsOf(SrcName(i), catalog, files).rows
            IN  /\ Len(seen) = Len(raw)
                /\ \A k \in 1..Len(raw) :
                    (raw[k]._FILE_NAME[6] = "") => seen[k].sample_id = None

\* a staging table rebuilt over an earlier one, from a snapshot with a NULL
\* sample_id in it, and holding rows
C4_Witness ==
    \E n \in StagingTables :
        /\ snapshot[n].replaced
        /\ \E k \in 1..Len(snapshot[n].read) : snapshot[n].read[k].sample_id = None
        /\ catalog[n].rows # <<>>

StgViewCalls(s, i) == CallsOf(s.log, "create_table", SrcName(i))
StgQueryCalls(s, i) == CallsOf(s.log, "query", StgName(i))

\* C5: whatever fails, a run never raises, and once it is past the two loops
\* it has called create_table once for every entry of SOURCE_VIEWS and started
\* the query of every entry of STAGING_QUERIES once; the staging loop starts
\* only after a create_table call for every view.
C5_EveryEntryAttempted ==
    \A j \in DOMAIN stg :
        /\ stg[j].pc # "raised"
        /\ stg[j].pc \in {"views_tally", "staging_query", "staging_result",
                          "staging_get_table", "verify", "done"} =>
            \A i \in Defs : Cardinality(StgViewCalls(stg[j], i)) = 1
        /\ stg[j].pc \in {"verify", "done"} =>
            \A i \in Defs : Cardinality(StgQueryCalls(stg[j], i)) = 1

\* a finished run whose first view and first staging table could not be made
\* while the second ones were
C5_Witness ==
    /\ stg[1].pc = "done"
    /\ SrcName(1) \notin DOMAIN catalog
    /\ StgName(1) \notin DOMAIN catalog
    /\ SrcName(2) \in DOMAIN catalog
    /\ StgName(2) \in DOMAIN catalog

\* the step in which the job of the staging table of definition i completes
\* (STAGED): query_job.result() returns to an invocation
Materialized(i) ==
    \E j \in DOMAIN stg :
        /\ stg[j].pc = "staging_result" /\ stg[j].idx = i
        /\ stg'[j].pc = "staging_get_table"

\* C11: in a run every create_table call for a view comes before every query
\* of a staging table, and the staging phase starts only after a call for each
\* view; a step in which the job of a staging table completes is taken only
\* while the source view of that definition is in the catalog, and the view is
\* still there afterwards.
C11_ViewBeforeStaged ==
    /\ [](\A j \in DOMAIN stg :
            /\ \A k, l \in 1..Len(stg[j].log) :
                (stg[j].log[k].op = "query" /\ stg[j].log[l].op = "create_table") => l < k
            /\ (\E k \in 1..Len(stg[j].log) : stg[j].log[k].op = "query") =>
                \A i \in Defs : Cardinality(StgViewCalls(stg[j], i)) = 1)
    /\ [][\A i \in Defs :
            Materialized(i) =>
                /\ SrcName(i) \in DOMAIN catalog
                /\ catalog[SrcName(i)].table_type = "VIEW"
                /\ SrcName(i) \in DOMAIN catalog'
                /\ StgName(i) \in DOMAIN catalog']_vars

\* the staging step of the first definition was attempted although its view
\* could not be created, and left no table; the run goes on to the second
C11_Witness ==
    /\ stg[1].pc = "staging_query"
    /\ stg[1].idx = 2
    /\ stg[1].success_count = 0
    /\ Cardinality(StgQueryCalls(stg[1], 1)) = 1
    /\ datasetExists
    /\ SrcName(1) \notin DOMAIN catalog
    /\ StgName(1) \notin DOMAIN catalog
    /\ SrcName(2) \in DOMAIN catalog


\* the step in which invocation j prints the row count of the staging table
\* of definition i: its client.get_table returned
Reported(j, i) ==
    /\ stg[j].pc = "staging_get_table" /\ stg[j].idx = i
    /\ stg'[j].success_count = stg[j].success_count + 1

\* C12: with two invocations at once, a staging table on which both have had
\* their query job complete holds the whole result of one of the two jobs;
\* every step in which a job completes leaves exactly that job's result as the
\* table's content, no other step changes the table, and the row count an
\* invocation prints is the one stored at the step of its get_table call.
C12_LastWriterWins ==
    /\ [](\A i \in Defs :
            (\A j \in DOMAIN stg : StgName(i) \in DOMAIN stg[j].wrote) =>
                /\ StgName(i) \in DOMAIN catalog
                /\ \E j \in DOMAIN stg : catalog[StgName(i)].rows = stg[j].wrote[StgName(i)])
    /\ [][\A i \in Defs :
            /\ \A j \in DOMAIN stg :
                /\ (stg[j].pc = "staging_result" /\ stg[j].idx = i
                        /\ stg'[j].pc = "staging_get_table") =>
                    /\ catalog'[StgName(i)].rows = stg[j].job.rows
                    /\ catalog'[StgName(i)].num_rows = Some(Len(stg[j].job.rows))
                /\ Reported(j, i) =>
                    /\ stg'[j].printed = catalog[StgName(i)].num_rows
                    /\ stg'[j].printed = Some(Len(catalog[StgName(i)].rows))
            /\ ~Materialized(i) =>
                /\ StgName(i) \in DOMAIN catalog' <=> StgName(i) \in DOMAIN catalog
                /\ StgName(i) \in DOMAIN catalog =>
                    catalog'[StgName(i)] = catalog[StgName(i)]]_vars

\* both jobs of the first staging table have completed with different results,
\* the table holds the second invocation's, and the first invocation has
\* printed that table's row count, not its own job's
C12_Witness ==
    LET n == StgName(1)
    IN  /\ \A j \in DOMAIN stg : n \in DOMAIN stg[j].wrote
        /\ DOMAIN stg = {1, 2}
        /\ stg[1].wrote[n] # stg[2].wrote[n]
        /\ catalog[n].rows = stg[2].wrote[n]
        /\ stg[1].pc = "staging_query" /\ stg[1].idx = 2 /\ stg[1].success_count = 1
        /\ stg[1].printed = Some(Len(stg[2].wrote[n]))
        /\ stg[1].printed # Some(Len(stg[1].wrote[n]))

----------------------------------------------------------------------------
(* Properties of the metadata harvester *)

Records == harv.result.tables
Failed == {n \in DOMAIN Records : "error" \in DOMAIN Records[n]}
Fetched == DOMAIN Records \ Failed

RECURSIVE Total(_)
\* the sum of the values of the dictionary d
Total(d) ==
    IF DOMAIN d = {} THEN 0
    ELSE LET x == CHOOSE y \in DOMAIN d : TRUE
         IN  d[x] + Total([y \in DOMAIN d \ {x} |-> d[y]])

\* C6, as the spec states it: in none of the three programs does an exception
\* leave main.
C6_NothingRaised ==
    /\ ext.pc # "raised"
    /\ \A i \in DOMAIN stg : stg[i].pc # "raised"
    /\ harv.pc # "raised"

\* C6, amended: no exception leaves the main of the external table provisioner
\* or of the view / staging provisioner; one leaves the harvester's main only
\* from client.get_dataset or client.list_tables, whose failure is the last
\* call it made, and never from a get_table call.
C6_OnlyHarvesterSetupRaises ==
    /\ ext.pc # "raised"
    /\ \A i \in DOMAIN stg : stg[i].pc # "raised"
    /\ harv.pc = "raised" =>
        /\ harv.log # <<>>
        /\ harv.log[Len(harv.log)].op \in {"get_dataset", "list_tables"}
        /\ ~harv.log[Len(harv.log)].ok
    /\ \A k \in 1..Len(harv.log) :
        (harv.log[k].op = "get_table" /\ ~harv.log[k].ok) =>
            /\ harv.pc # "raised"
            /\ harv.log[k].name \in Failed

\* the harvester has stopped on a failed list_tables
C6_Witness ==
    /\ harv.pc = "raised"
    /\ harv.log[Len(harv.log)].op = "list_tables"

\* C8: an object whose get_table failed has a record of exactly its short name
\* and the error text; every other object taken so far has the record of its
\* own catalog entry; the summary counts by type and by prefix only the objects
\* fetched, and its totals are the sums over their records; at the end every
\* listed object has its record.
C8_FetchFailureIsMarked ==
    program = "harv" =>
        /\ \A k \in 1..Len(harv.log) :
            harv.log[k].op = "get_table" =>
                /\ harv.log[k].name \in DOMAIN Records
                /\ harv.log[k].ok <=> harv.log[k].name \in Fetched
        /\ \A n \in Failed :
            /\ DOMAIN Records[n] = {"table_id", "error"}
            /\ Records[n].table_id = n
            /\ Records[n].error = "get_table failed"
        /\ \A n \in Fetched :
            /\ Records[n].table_id = n
            /\ Records[n].table_type = catalog[n].table_type
            /\ {"full_table_id", "schema", "num_fields", "num_rows", "num_bytes",
                "size_gb", "clustering_fields", "created", "modified"}
                   \subseteq DOMAIN Records[n]
        /\ LET summary == harv.result.summary
               rows(n) == IF Records[n].num_rows = None THEN 0 ELSE Val(Records[n].num_rows)
               size(n) == IF Records[n].size_gb = None THEN 0 ELSE Val(Records[n].size_gb)
           IN  /\ DOMAIN summary.by_type = {catalog[n].table_type : n \in Fetched}
               /\ \A t \in DOMAIN summary.by_type :
                    summary.by_type[t] =
                        Cardinality({n \in Fetched : catalog[n].table_type = t})
               /\ Total(summary.by_prefix) = Cardinality(Fetched)
               /\ summary.total_rows = Total([n \in Fetched |-> rows(n)])
               /\ summary.total_size_gb = Total([n \in Fetched |-> size(n)])
        /\ harv.pc = "done" => DOMAIN Records = DOMAIN catalog

\* a finished report with an error marker before a table that counts rows and size
C8_Witness ==
    /\ harv.pc = "done"
    /\ ext_a \in Failed
    /\ stg_a \in Fetched
    /\ Records[stg_a].table_type = "TABLE"
    /\ harv.result.summary.total_rows > 0
    /\ harv.result.summary.total_size_gb > 0

\* the element sequence p is the first Len(p) elements of s
IsPrefix(p, s) == Len(p) <= Len(s) /\ \A k \in 1..Len(p) : p[k] = s[k]

\* C9: the record of a VIEW has a null row count and its defining query; that
\* of an EXTERNAL table has a source configuration with the first 3 source
\* URIs at most and the number of all of them; that of a TABLE has its row
\* count and byte size; only views have a view_query and only external tables
\* an external_config.
C9_RecordFollowsKind ==
    \A n \in Fetched :
        LET rec == Records[n]
            obj == catalog[n]
        IN  /\ obj.table_type = "VIEW" =>
                /\ rec.num_rows = None
                /\ "view_query" \in DOMAIN rec
                /\ rec.view_query # None
                /\ rec.view_query = obj.view_query
            /\ obj.table_type = "EXTERNAL" =>
                /\ "external_config" \in DOMAIN rec
                /\ Len(rec.external_config.source_uris) <= 3
                /\ IsPrefix(rec.external_config.source_uris,
                            Val(obj.external_data_configuration).source_uris)
                /\ \/ Len(rec.external_config.source_uris) = 3
                   \/ rec.external_config.source_uris
                          = Val(obj.external_data_configuration).source_uris
                /\ rec.external_config.num_source_uris
                       = Len(Val(obj.external_data_configuration).source_uris)
            /\ obj.table_type = "TABLE" =>
                /\ rec.num_rows # None /\ rec.num_rows = obj.num_rows
                /\ rec.num_bytes # None /\ rec.num_bytes = obj.num_bytes
            /\ "view_query" \in DOMAIN rec <=> obj.table_type = "VIEW"
            /\ "external_config" \in DOMAIN rec <=> obj.table_type = "EXTERNAL"

\* a report with a view, a table and an external table of more than 3 URIs
C9_Witness ==
    /\ harv.pc = "done"
    /\ \E n \in Fetched : Records[n].table_type = "VIEW"
    /\ \E n \in Fetched : Records[n].table_type = "TABLE"
    /\ \E n \in Fetched :
        /\ Records[n].table_type = "EXTERNAL"
        /\ Records[n].external_config.num_source_uris > 3
        /\ Len(Records[n].external_config.source_uris) = 3

\* the harvest of ["ext_a", "src_a", "stg_a", "weird"], all four fetched
FourNamesHarvested ==
    /\ harv.pc = "done"
    /\ Fetched = {ext_a, src_a, stg_a, weird}
    /\ Failed = {}

Bucket(chars) == chars \o <<"_">>

\* C10, as the spec states it: the four names give the by-prefix counts
\* {ext_: 1, src_: 1, stg_: 1, w: 1}.
C10_SingleCharacterBucket ==
    FourNamesHarvested =>
        harv.result.summary.by_prefix =
            [p \in {Bucket(<<"e", "x", "t">>), Bucket(<<"s", "r", "c">>),
                    Bucket(<<"s", "t", "g">>), <<"w">>} |-> 1]

\* p is the bucket of name n: the characters of n before its first underscore,
\* or all of n when it has none, and an underscore
IsBucketOf(p, n) ==
    /\ p # <<>>
    /\ p[Len(p)] = "_"
    /\ \A k \in 1..(Len(p) - 1) : p[k] # "_"
    /\ IsPrefix(SubSeq(p, 1, Len(p) - 1), n)
    /\ Len(n) = Len(p) - 1 \/ IsPrefix(p, n)

\* C10, amended: every object fetched is counted once, in the bucket made of
\* the characters before its first underscore and an underscore, which for a
\* name without underscore is the whole name and an underscore; the four names
\* give {ext_: 1, src_: 1, stg_: 1, weird_: 1}.
C10_WholeNameBucket ==
    /\ \A n \in Fetched : \E p \in DOMAIN harv.result.summary.by_prefix : IsBucketOf(p, n)
    /\ \A p \in DOMAIN harv.result.summary.by_prefix :
        harv.result.summary.by_prefix[p] =
            Cardinality({n \in Fetched : IsBucketOf(p, n)})
    /\ FourNamesHarvested =>
        harv.result.summary.by_prefix =
            [p \in {Bucket(<<"e", "x", "t">>), Bucket(<<"s", "r", "c">>),
                    Bucket(<<"s", "t", "g">>), Bucket(weird)} |-> 1]

\* the report on the four names is finished
C10_Witness == FourNamesHarvested

\* C13: once list_tables has returned, summary.total_tables is the number of
\* objects listed; the by_type counts and the by_prefix counts each add up to
\* the number of records without an error marker; and in the report of a
\* finished harvest total_tables is the number of keys of the tables mapping,
\* hence the sum of the by_type counts plus the number of error records.
C13_SummaryCounts ==
    program = "harv" =>
        LET summary == harv.result.summary
        IN  /\ harv.pc \in {"loop", "done"} =>
                /\ summary.total_tables = Len(harv.tables)
                /\ summary.total_tables = Cardinality(DOMAIN catalog)
                /\ DOMAIN Records = {harv.tables[k] : k \in 1..(harv.idx - 1)}
            /\ Total(summary.by_type) = Cardinality(Fetched)
            /\ Total(summary.by_prefix) = Cardinality(Fetched)
            /\ harv.pc = "done" =>
                /\ summary.total_tables = Cardinality(DOMAIN Records)
                /\ summary.total_tables = Total(summary.by_type) + Cardinality(Failed)
                /\ summary.total_tables = Total(summary.by_prefix) + Cardinality(Failed)

\* a report with an error record and two fetched objects of one type
C13_Witness ==
    /\ harv.pc = "done"
    /\ Failed # {}
    /\ \E t \in DOMAIN harv.result.summary.by_type : harv.result.summary.by_type[t] >= 2
    /\ harv.result.summary.total_tables > Total(harv.result.summary.by_type)

====
